---- MODULE Spec2Model ----
(***************************************************************************)
(* A model of the toy Redis server: the RESP codec (resp.rs), the command  *)
(* interpreter (command.rs), the keyspace store (database.rs) and the two  *)
(* dispatchers found in the sources (Server::exec / Server::handle_client  *)
(* of server.rs, and handle_client of main.rs).                            *)
(*                                                                         *)
(* Strings are sequences of one-character strings, so that splitting,      *)
(* trimming, prefix tests and formatting are computed character by         *)
(* character, as the code computes them.                                   *)
(***************************************************************************)
EXTENDS Integers, Sequences, FiniteSets, TLC

\* ------------------------------------------------------------------ bytes

CR == "\r"
LF == "\n"
NUL == "<NUL>"

\* resp.rs: pub const CRLF / SIMPLE_STRING_START / BULK_STRING_START / ARRAY_START
CRLF == <<CR, LF>>
SIMPLE_STRING_START == "+"
BULK_STRING_START == "$"
ARRAY_START == "*"

Digits == <<"0", "1", "2", "3", "4", "5", "6", "7", "8", "9">>

DigitValue(ch) == (CHOOSE i \in 1..10 : Digits[i] = ch) - 1

IsDigit(ch) == \E i \in 1..10 : Digits[i] = ch

\* Formatting of an unsigned integer with `{}`: its decimal digits.
RECURSIVE ToDecimal(_)
ToDecimal(n) ==
    IF n < 10 THEN <<Digits[n + 1]>>
    ELSE ToDecimal(n \div 10) \o <<Digits[(n % 10) + 1]>>

\* str::to_ascii_lowercase on the letters the model uses.
LowerOf(ch) ==
    CASE ch = "P" -> "p" [] ch = "I" -> "i" [] ch = "N" -> "n" [] ch = "G" -> "g"
      [] ch = "E" -> "e" [] ch = "C" -> "c" [] ch = "H" -> "h" [] ch = "O" -> "o"
      [] ch = "S" -> "s" [] ch = "T" -> "t" [] ch = "X" -> "x"
      [] OTHER -> ch

to_ascii_lowercase(s) == [i \in 1..Len(s) |-> LowerOf(s[i])]

\* str::starts_with(char)
starts_with(s, ch) == Len(s) > 0 /\ s[1] = ch

\* str::trim_matches('\0'): strips the pattern from both ends.
RECURSIVE TrimStart(_, _)
TrimStart(s, ch) ==
    IF starts_with(s, ch) THEN TrimStart(Tail(s), ch) ELSE s

RECURSIVE TrimEnd(_, _)
TrimEnd(s, ch) ==
    IF Len(s) > 0 /\ s[Len(s)] = ch THEN TrimEnd(SubSeq(s, 1, Len(s) - 1), ch) ELSE s

trim_matches(s, ch) == TrimEnd(TrimStart(s, ch), ch)

\* str::split(CRLF): the parts between the occurrences of the two-byte
\* separator, empty parts included ("a\r\n" splits into "a" and "").
RECURSIVE SplitFrom(_, _, _)
SplitFrom(s, i, cur) ==
    IF i > Len(s) THEN <<cur>>
    ELSE IF i < Len(s) /\ s[i] = CR /\ s[i + 1] = LF
         THEN <<cur>> \o SplitFrom(s, i + 2, <<>>)
         ELSE SplitFrom(s, i + 1, Append(cur, s[i]))

split(s) == SplitFrom(s, 1, <<>>)

\* ------------------------------------------------------------------ resp.rs

SimpleString(d) == [type |-> "SimpleString", data |-> d]
BulkString(d) == [type |-> "BulkString", data |-> d]
Array(ts) == [type |-> "Array", tokens |-> ts]

IsString(t) == t.type \in {"SimpleString", "BulkString"}

Ok(v) == [ok |-> TRUE, val |-> v]
Err(e) == [ok |-> FALSE, err |-> e]

\* The filter closure of Token::try_from.
KeepPart(part) == part # <<>> /\ ~starts_with(part, ARRAY_START)

\* Iterator::filter with that closure.
RECURSIVE filter(_)
filter(parts) ==
    IF parts = <<>> THEN <<>>
    ELSE IF KeepPart(Head(parts)) THEN <<Head(parts)>> \o filter(Tail(parts))
         ELSE filter(Tail(parts))

\* The `while let Some(str) = parts.next()` loop of Token::try_from: i is the
\* position of the iterator, tokens the vector built so far.
RECURSIVE TokenLoop(_, _, _)
TokenLoop(parts, i, tokens) ==
    IF i > Len(parts) THEN Ok(tokens)
    ELSE LET str == parts[i] IN
         IF str = <<>> THEN Err("IncompleteMessage")
         ELSE IF str[1] = BULK_STRING_START
              THEN IF i + 1 > Len(parts) THEN Err("IncompleteMessage")
                   ELSE TokenLoop(parts, i + 2, Append(tokens, BulkString(parts[i + 1])))
         ELSE IF str[1] = SIMPLE_STRING_START
              THEN TokenLoop(parts, i + 1, Append(tokens, SimpleString(Tail(str))))
         ELSE Err("UnknownType")

\* Mutant of Token_try_from: the zeros of the read buffer are not trimmed.
Token_try_from_untrimmed(input) ==
    LET is_array == starts_with(input, ARRAY_START)
        parts == filter(split(input))
        res == TokenLoop(parts, 1, <<>>)
    IN  IF ~res.ok THEN res
        ELSE IF Len(res.val) = 0 \/ is_array THEN Ok(Array(res.val))
        ELSE Ok(res.val[1])

\* impl TryFrom<&str> for Token
Token_try_from(input) ==
    LET str == trim_matches(input, NUL)
        is_array == starts_with(str, ARRAY_START)
        parts == filter(split(str))
        res == TokenLoop(parts, 1, <<>>)
    IN  IF ~res.ok THEN res
        ELSE IF Len(res.val) = 0 \/ is_array THEN Ok(Array(res.val))
        ELSE Ok(res.val[1])

\* impl Display for Token
RECURSIVE Token_fmt(_)
RECURSIVE FmtAll(_)
Token_fmt(t) ==
    CASE t.type = "SimpleString" -> <<SIMPLE_STRING_START>> \o t.data \o CRLF
      [] t.type = "BulkString" ->
            <<BULK_STRING_START>> \o ToDecimal(Len(t.data)) \o CRLF \o t.data \o CRLF
      [] t.type = "Array" ->
            <<ARRAY_START>> \o ToDecimal(Len(t.tokens)) \o CRLF \o FmtAll(t.tokens)

FmtAll(ts) == IF ts = <<>> THEN <<>> ELSE Token_fmt(Head(ts)) \o FmtAll(Tail(ts))

\* --------------------------------------------------------------- command.rs

None == [some |-> FALSE]
Some(v) == [some |-> TRUE, v |-> v]

\* Vec::first / Vec::get(i), with the code's zero-based index.
get(tokens, i) == IF i + 1 <= Len(tokens) THEN Some(tokens[i + 1]) ELSE None

RECURSIVE DecimalValue(_)
DecimalValue(s) ==
    IF s = <<>> THEN 0
    ELSE 10 * DecimalValue(SubSeq(s, 1, Len(s) - 1)) + DigitValue(s[Len(s)])

\* str::parse::<u64>(): an optional '+' sign, then one or more decimal digits
\* and nothing else.  (The strings of the model are far too short to exceed
\* u64::MAX, the one other reason for which the parse fails.)
parse_u64(s) ==
    LET digits == IF starts_with(s, "+") THEN Tail(s) ELSE s IN
    IF digits # <<>> /\ \A i \in 1..Len(digits) : IsDigit(digits[i])
    THEN Ok(DecimalValue(digits))
    ELSE Err("ParseIntError")

\* The stored value: main.rs `struct Value { value, ttl, created }`,
\* database.rs `struct Value { data, ttl, created }`.  ttl is None or
\* Some(milliseconds), created an instant of the clock.
Value(data, ttl, created) == [data |-> data, ttl |-> ttl, created |-> created]

Ping == [op |-> "Ping"]
Echo(message) == [op |-> "Echo", message |-> message]
Set(key, value) == [op |-> "Set", key |-> key, value |-> value]
Get(key) == [op |-> "Get", key |-> key]

InvalidInput == Err("InvalidInput")
\* A panic of the running task (`unwrap()` on an Err).
Panic == Err("panic")

is_string(opt) == opt.some /\ IsString(opt.v)

\* The ttl of a `set`: `match ttl { Some(SimpleString | BulkString) =>
\* Some(from_millis(parse().unwrap())), _ => None }`.  An Err stands for the
\* panic of the unwrap.
set_ttl(ttl) ==
    IF is_string(ttl)
    THEN LET ms == parse_u64(ttl.v.data) IN
         IF ms.ok THEN Ok(Some(ms.val)) ELSE Panic
    ELSE Ok(None)

\* Mutant of the "set" arm: the ttl is looked for right after the value, at
\* index 3.
try_from_set_ttl_at_3(tokens, now) ==
    LET key == get(tokens, 1)
        value == get(tokens, 2)
        ttl == set_ttl(get(tokens, 3))
    IN  IF is_string(key) /\ is_string(value)
        THEN IF ttl.ok
             THEN Ok(Set(key.v.data, Value(value.v.data, ttl.val, now)))
             ELSE Panic
        ELSE InvalidInput

\* The "set" arm of Command::try_from; now is what Instant::now() returns.
try_from_set(tokens, now) ==
    LET key == get(tokens, 1)
        value == get(tokens, 2)
        ttl == set_ttl(get(tokens, 4))
    IN  IF is_string(key) /\ is_string(value)
        THEN IF ttl.ok
             THEN Ok(Set(key.v.data, Value(value.v.data, ttl.val, now)))
             ELSE Panic
        ELSE InvalidInput

\* Mutant of Command_try_from: the name is compared as it was sent, without
\* to_ascii_lowercase.
Command_try_from_exact_case(value, now) ==
    IF IsString(value)
    THEN IF value.data = <<"p", "i", "n", "g">>
         THEN Ok(Ping) ELSE InvalidInput
    ELSE LET tokens == value.tokens
             first == get(tokens, 0)
         IN  IF ~is_string(first) THEN InvalidInput
             ELSE LET name == first.v.data IN
                  CASE name = <<"p", "i", "n", "g">> -> Ok(Ping)
                    [] name = <<"e", "c", "h", "o">> ->
                          IF is_string(get(tokens, 1))
                          THEN Ok(Echo(get(tokens, 1).v.data)) ELSE InvalidInput
                    [] name = <<"g", "e", "t">> ->
                          IF is_string(get(tokens, 1))
                          THEN Ok(Get(get(tokens, 1).v.data)) ELSE InvalidInput
                    [] name = <<"s", "e", "t">> -> try_from_set(tokens, now)
                    [] OTHER -> InvalidInput

\* Mutant of Command_try_from: an echo or a get whose argument is missing or
\* is an array takes the empty string for it.
Command_try_from_default_arg(value, now) ==
    IF IsString(value)
    THEN IF to_ascii_lowercase(value.data) = <<"p", "i", "n", "g">>
         THEN Ok(Ping) ELSE InvalidInput
    ELSE LET tokens == value.tokens
             first == get(tokens, 0)
         IN  IF ~is_string(first) THEN InvalidInput
             ELSE LET name == to_ascii_lowercase(first.v.data) IN
                  CASE name = <<"p", "i", "n", "g">> -> Ok(Ping)
                    [] name = <<"e", "c", "h", "o">> ->
                          IF is_string(get(tokens, 1))
                          THEN Ok(Echo(get(tokens, 1).v.data)) ELSE Ok(Echo(<<>>))
                    [] name = <<"g", "e", "t">> ->
                          IF is_string(get(tokens, 1))
                          THEN Ok(Get(get(tokens, 1).v.data)) ELSE Ok(Get(<<>>))
                    [] name = <<"s", "e", "t">> -> try_from_set(tokens, now)
                    [] OTHER -> InvalidInput

\* impl TryFrom<Token> for Command
Command_try_from(value, now) ==
    IF IsString(value)
    THEN IF to_ascii_lowercase(value.data) = <<"p", "i", "n", "g">>
         THEN Ok(Ping) ELSE InvalidInput
    ELSE LET tokens == value.tokens
             first == get(tokens, 0)
         IN  IF ~is_string(first) THEN InvalidInput
             ELSE LET name == to_ascii_lowercase(first.v.data) IN
                  CASE name = <<"p", "i", "n", "g">> -> Ok(Ping)
                    [] name = <<"e", "c", "h", "o">> ->
                          IF is_string(get(tokens, 1))
                          THEN Ok(Echo(get(tokens, 1).v.data)) ELSE InvalidInput
                    [] name = <<"g", "e", "t">> ->
                          IF is_string(get(tokens, 1))
                          THEN Ok(Get(get(tokens, 1).v.data)) ELSE InvalidInput
                    [] name = <<"s", "e", "t">> -> try_from_set(tokens, now)
                    [] OTHER -> InvalidInput

\* impl TryFrom<&str> for Command: decode, then interpret.
Command_from_str(str, now) ==
    LET syntax == Token_try_from(str) IN
    IF syntax.ok THEN Command_try_from(syntax.val, now) ELSE syntax


\* -------------------------------------------------------------- database.rs

\* Instant::duration_since: the time from earlier to self, zero when earlier
\* is later than self (it saturates).
duration_since(self, earlier) == IF self >= earlier THEN self - earlier ELSE 0

\* Database::new: the empty HashMap.
Database_new == [k \in {} |-> None]

\* Mutant of is_expired: the comparison is `>=`, so that a value expires at
\* the very instant its ttl is reached.
is_expired_at_ttl(value, now) ==
    value.ttl.some /\ duration_since(now, value.created) >= value.ttl.v

\* The ttl test of Database::get.
is_expired(value, now) ==
    value.ttl.some /\ duration_since(now, value.created) > value.ttl.v

\* Mutant of Database::get: a missing ttl is read as a ttl of zero.
Database_get_ttl_or_zero(storage, key, now) ==
    IF key \notin DOMAIN storage THEN Err("KeyNotFound")
    ELSE LET value == storage[key]
             ttl == IF value.ttl.some THEN value.ttl.v ELSE 0
         IN  IF duration_since(now, value.created) > ttl
             THEN Err("Expired") ELSE Ok(value)

\* Mutant of Database::get: an expired key is reported like a missing one.
Database_get_expired_is_missing(storage, key, now) ==
    IF key \notin DOMAIN storage \/ is_expired(storage[key], now)
    THEN Err("KeyNotFound")
    ELSE Ok(storage[key])

\* Database::get; now is what Instant::now() returns.
Database_get(storage, key, now) ==
    IF key \notin DOMAIN storage THEN Err("KeyNotFound")
    ELSE LET value == storage[key] IN
         IF is_expired(value, now) THEN Err("Expired") ELSE Ok(value)

\* Mutant of Database::set: the entry is inserted only when the key is vacant
\* (entry(key).or_insert(value)), so a second Set leaves the first in place.
Database_set_or_insert(storage, key, value) ==
    [k \in DOMAIN storage \cup {key} |->
        IF k \in DOMAIN storage THEN storage[k] ELSE value]

\* Mutant of Database_set: an entry that exists is updated in place, its data
\* alone, and keeps the ttl and the creation instant of the Set before.
Database_set_data_only(storage, key, value) ==
    [k \in DOMAIN storage \cup {key} |->
        IF k # key THEN storage[k]
        ELSE IF k \in DOMAIN storage THEN [storage[k] EXCEPT !.data = value.data]
        ELSE value]

\* Database::set: HashMap::insert.
Database_set(storage, key, value) ==
    [k \in DOMAIN storage \cup {key} |-> IF k = key THEN value ELSE storage[k]]

\* ---------------------------------------------------------------- server.rs

OkText == <<"O", "K">>
PongText == <<"P", "O", "N", "G">>
KeyNotFoundText == <<"-", "K", "e", "y", " ", "n", "o", "t", " ", "f", "o", "u", "n", "d">>
NullBulkText == <<"$", "-", "1">>

\* Server::exec, the bytes handed to stream.write by each arm.
exec_ping == <<SIMPLE_STRING_START>> \o PongText \o CRLF

exec_echo(message) == <<SIMPLE_STRING_START>> \o message \o CRLF

exec_set == <<SIMPLE_STRING_START>> \o OkText \o CRLF

\* The Get arm: `match db.get(&key)` builds the response, CRLF is appended.
exec_get(result) ==
    LET response ==
            IF result.ok THEN <<"+">> \o result.val.data
            ELSE IF result.err = "KeyNotFound" THEN KeyNotFoundText
            ELSE NullBulkText
    IN  response \o CRLF

\* ------------------------------------------------------------------ main.rs

ErrExpiredText == <<"E", "R", "R", ":", " ", "e", "x", "p", "i", "r", "e", "d">>
ErrNoSuchKeyText ==
    <<"E", "R", "R", ":", " ", "n", "o", " ", "s", "u", "c", "h", " ", "k", "e", "y">>

\* The Get arm of handle_client, the lookup `match db.lock().unwrap().get(&key)`:
\* which arm is taken, as a result, for the instant `requested`.
main_get(db, key, requested) ==
    IF key \notin DOMAIN db THEN Err("KeyNotFound")
    ELSE LET value == db[key] IN
         IF value.ttl.some
         THEN IF duration_since(requested, value.created) <= value.ttl.v
              THEN Ok(value) ELSE Err("Expired")
         ELSE Ok(value)

\* The Get arm of handle_client, the text each arm of the match yields, framed
\* by format!("{SIMPLE_STRING_START}{}{SEPARATOR}").
main_get_reply(result) ==
    LET text ==
            IF result.ok THEN result.val.data
            ELSE IF result.err = "Expired" THEN ErrExpiredText
            ELSE ErrNoSuchKeyText
    IN  <<SIMPLE_STRING_START>> \o text \o CRLF

\* command.rs: PONG_RESPONSE
PONG_RESPONSE == <<SIMPLE_STRING_START>> \o PongText \o CRLF


\* ------------------------------------------------------------ the requests

kk == <<"k">>
kj == <<"j">>
vv == <<"v">>
vw == <<"w">>
msg == <<"m">>

SET == <<"S", "E", "T">>
GET == <<"G", "E", "T">>
PX == <<"P", "X">>

\* The frames a client sends in the model of the server: the commands of the
\* tests and of the specification's scenarios (with one-letter keys and
\* values), a set with a ttl at index 4, a set whose ttl is no number, a
\* line with no RESP sigil, and an empty line.
Frames ==
    { <<"+", "p", "i", "n", "g">> \o CRLF,
      Token_fmt(Array(<<BulkString(<<"E", "C", "H", "O">>), BulkString(msg)>>)),
      Token_fmt(Array(<<BulkString(SET), BulkString(kk), BulkString(vv)>>)),
      Token_fmt(Array(<<BulkString(SET), BulkString(kk), BulkString(vw),
                        BulkString(PX), BulkString(<<"1">>)>>)),
      Token_fmt(Array(<<BulkString(SET), BulkString(kk), BulkString(vv),
                        BulkString(PX), BulkString(<<"x">>)>>)),
      Token_fmt(Array(<<BulkString(GET), BulkString(kk)>>)),
      Token_fmt(Array(<<BulkString(<<"g", "e", "t">>), BulkString(kj)>>)),
      <<"h", "e", "y">> \o CRLF,
      CRLF }

\* ------------------------------------------------------------------ bounds

\* The last instant of the clock (in milliseconds, the unit of the ttl).
MaxTime == 2

\* The connections that may be open at once.
Conns == {"c1", "c2"}

NoConn == "none"

\* ------------------------------------------------------------------- state

VARIABLES
    rev,      \* which dispatcher runs: "server" (server.rs) or "main" (main.rs)
    clock,    \* the monotonic clock read by Instant::now()
    storage,  \* Database::storage (server.rs) / the HashMap of main.rs
    lock,     \* the holder of the tokio Mutex around the Database, or NoConn
    conn,     \* per connection: the position and the locals of handle_client
    lastSet,  \* history: per key, the value given by the last Set executed on
              \* it; when that Set gave no ttl and replaced a value that
              \* had one, the instant after which the replaced value expired;
              \* and the earliest instant of a Get that found it expired
    lab       \* the input and the outputs of the codec and the interpreter
              \* when they are exercised on their own

vars == <<rev, clock, storage, lock, conn, lastSet, lab>>

NoCommand == [op |-> "None"]
NoResult == Err("none")

\* A connection that is not open; exit tells how its task ended.
Closed(exit) ==
    [pc |-> "closed", exit |-> exit, request |-> <<>>, command |-> NoCommand,
     requested |-> 0, result |-> NoResult, wbuf |-> <<>>]

LabOff == [stage |-> "off"]

Init ==
    /\ rev \in {"server", "main"}
    /\ clock = 0
    /\ storage = Database_new
    /\ lock = NoConn
    /\ conn = [c \in Conns |-> Closed("none")]
    /\ lastSet = Database_new
    /\ lab = LabOff

\* Time passes.
Tick ==
    /\ clock < MaxTime
    /\ clock' = clock + 1
    /\ UNCHANGED <<rev, storage, lock, conn, lastSet, lab>>

\* Server::run / main: a connection is accepted and its task spawned, with
\* `let mut request = [0; 512]` (the buffer is kept without its trailing zeros).
Accept(c) ==
    /\ conn[c].pc = "closed"
    /\ conn' = [conn EXCEPT ![c] = [Closed("none") EXCEPT !.pc = "read"]]
    /\ UNCHANGED <<rev, clock, storage, lock, lastSet, lab>>

\* stream.read(&mut request) writes the bytes it delivers over the start of the
\* buffer and leaves the rest of the buffer as it was.
read_into(request, bytes) ==
    bytes \o SubSeq(request, Len(bytes) + 1, Len(request))

\* Mutant of Eof: the loop has no `break` on `read_bytes == 0` and converts
\* the buffer, which the read left as it was, once more.
EofNoBreak(c) ==
    /\ conn[c].pc = "read"
    /\ LET command == Command_from_str(conn[c].request, clock) IN
       conn' = [conn EXCEPT ![c] =
                IF command.ok
                THEN [@ EXCEPT !.pc = "exec", !.command = command.val]
                ELSE Closed("err")]
    /\ UNCHANGED <<rev, clock, storage, lock, lastSet, lab>>

\* handle_client, `read_bytes == 0`: the loop breaks and the task ends with Ok.
Eof(c) ==
    /\ conn[c].pc = "read"
    /\ conn' = [conn EXCEPT ![c] = Closed("ok")]
    /\ UNCHANGED <<rev, clock, storage, lock, lastSet, lab>>

\* How the task ends on an error of decoding or interpretation: server.rs
\* returns the error with `?` and Server::run logs it; main.rs returns it and
\* the spawned closure unwraps it.  A panic inside the interpreter is a panic
\* of the task in both.
exit_of(err) ==
    IF err = "panic" \/ rev = "main" THEN "panic" ELSE "err"

\* Every content the buffer of an open connection can have: the empty buffer,
\* and what a read leaves in a buffer whose content was served without error.
RECURSIVE BuffersFrom(_)
BuffersFrom(have) ==
    LET served == { h \in have : h = <<>> \/ Command_from_str(h, 0).ok }
        more == have \cup { read_into(b, f) : b \in served, f \in Frames }
    IN  IF more = have THEN have ELSE BuffersFrom(more)

Buffers == BuffersFrom({<<>>})

\* String::from_utf8, Token::try_from and Command::try_from on the whole
\* buffer at each instant, tabulated (the conversion is a pure function of the
\* buffer and of the instant read by Instant::now()).
Interpreted == [b \in Buffers, now \in 0..MaxTime |-> Command_from_str(b, now)]

\* Mutant of Read: an error of the conversions leaves the accept loop as well,
\* and every connection task ends with the one that failed.
ReadFatal(c, bytes) ==
    /\ conn[c].pc = "read"
    /\ LET request == read_into(conn[c].request, bytes)
           command == Interpreted[request, clock]
       IN  conn' = IF command.ok
                   THEN [conn EXCEPT ![c] = [@ EXCEPT !.pc = "exec", !.request = request,
                                                      !.command = command.val]]
                   ELSE [d \in Conns |-> Closed(exit_of(command.err))]
    /\ UNCHANGED <<rev, clock, storage, lock, lastSet, lab>>

\* handle_client, one read that delivers bytes, then the conversions.
Read(c, bytes) ==
    /\ conn[c].pc = "read"
    /\ LET request == read_into(conn[c].request, bytes)
           command == Interpreted[request, clock]
       IN  conn' = [conn EXCEPT ![c] =
                IF command.ok
                THEN [@ EXCEPT !.pc = "exec", !.request = request,
                               !.command = command.val]
                ELSE Closed(exit_of(command.err))]
    /\ UNCHANGED <<rev, clock, storage, lock, lastSet, lab>>

\* The Ping arm (Server::exec and handle_client of main.rs).
ExecPing(c) ==
    /\ conn[c].pc = "exec"
    /\ conn[c].command.op = "Ping"
    /\ conn' = [conn EXCEPT ![c].pc = "write",
                            ![c].wbuf = IF rev = "server" THEN exec_ping
                                        ELSE PONG_RESPONSE]
    /\ UNCHANGED <<rev, clock, storage, lock, lastSet, lab>>

\* The Echo arm (both dispatchers format the same bytes).
ExecEcho(c) ==
    /\ conn[c].pc = "exec"
    /\ conn[c].command.op = "Echo"
    /\ conn' = [conn EXCEPT ![c].pc = "write",
                            ![c].wbuf = exec_echo(conn[c].command.message)]
    /\ UNCHANGED <<rev, clock, storage, lock, lastSet, lab>>

\* The Set arm: `self.db.lock().await.set(key, value)` (server.rs) and
\* `db.lock().unwrap().insert(key, value)` (main.rs); the guard is a temporary
\* of the statement, so the lock is taken and released in this step.
ExecSet(c) ==
    /\ conn[c].pc = "exec"
    /\ conn[c].command.op = "Set"
    /\ lock = NoConn
    /\ storage' = Database_set(storage, conn[c].command.key, conn[c].command.value)
    /\ lastSet' = [k \in DOMAIN lastSet \cup {conn[c].command.key} |->
                     IF k = conn[c].command.key
                     THEN [value |-> conn[c].command.value,
                           replaced |->
                               IF /\ ~conn[c].command.value.ttl.some
                                  /\ k \in DOMAIN lastSet
                                  /\ lastSet[k].value.ttl.some
                               THEN Some(lastSet[k].value.created
                                         + lastSet[k].value.ttl.v)
                               ELSE None,
                           expired |-> None]
                     ELSE lastSet[k]]
    /\ conn' = [conn EXCEPT ![c].pc = "write", ![c].wbuf = exec_set]
    /\ UNCHANGED <<rev, clock, lock, lab>>

\* The history kept for the claims: the earliest instant at which a Get on
\* the key returned Expired since the last Set on it.
NoteGet(key, result, at) ==
    IF result = Err("Expired")
    THEN [lastSet EXCEPT ![key].expired =
              IF @.some /\ @.v <= at THEN @ ELSE Some(at)]
    ELSE lastSet

\* Mutant of ServerGet: a Get touches the entry it finds, whose creation
\* instant becomes the instant of the Get.
ServerGetTouch(c) ==
    /\ rev = "server"
    /\ conn[c].pc = "exec"
    /\ conn[c].command.op = "Get"
    /\ lock = NoConn
    /\ lock' = c
    /\ LET key == conn[c].command.key
           result == Database_get(storage, key, clock)
       IN  /\ conn' = [conn EXCEPT ![c].pc = "write", ![c].requested = clock,
                                   ![c].result = result, ![c].wbuf = exec_get(result)]
           /\ lastSet' = NoteGet(key, result, clock)
           /\ storage' = IF key \in DOMAIN storage
                         THEN [storage EXCEPT ![key].created = clock]
                         ELSE storage
    /\ UNCHANGED <<rev, clock, lab>>

\* Mutant of ServerGet: the error of Database::get is returned with `?`
\* instead of being answered, and the task ends with it.
ServerGetPropagates(c) ==
    /\ rev = "server"
    /\ conn[c].pc = "exec"
    /\ conn[c].command.op = "Get"
    /\ lock = NoConn
    /\ LET result == Database_get(storage, conn[c].command.key, clock) IN
       IF result.ok
       THEN /\ lock' = c
            /\ conn' = [conn EXCEPT ![c].pc = "write", ![c].requested = clock,
                                    ![c].result = result, ![c].wbuf = exec_get(result)]
       ELSE /\ lock' = lock
            /\ conn' = [conn EXCEPT ![c] = Closed("err")]
    /\ UNCHANGED <<rev, clock, storage, lastSet, lab>>

\* The Get arm of Server::exec: `let db = self.db.lock().await`, the lookup and
\* the response; the guard `db` lives to the end of the arm, so the lock is
\* still held while the reply is written.
ServerGet(c) ==
    /\ rev = "server"
    /\ conn[c].pc = "exec"
    /\ conn[c].command.op = "Get"
    /\ lock = NoConn
    /\ lock' = c
    /\ LET result == Database_get(storage, conn[c].command.key, clock) IN
       /\ conn' = [conn EXCEPT ![c].pc = "write", ![c].requested = clock,
                               ![c].result = result, ![c].wbuf = exec_get(result)]
       /\ lastSet' = NoteGet(conn[c].command.key, result, clock)
    /\ UNCHANGED <<rev, clock, storage, lab>>

\* The Get arm of main.rs, `let requested = Instant::now()`.
MainRequested(c) ==
    /\ rev = "main"
    /\ conn[c].pc = "exec"
    /\ conn[c].command.op = "Get"
    /\ conn' = [conn EXCEPT ![c].pc = "lookup", ![c].requested = clock]
    /\ UNCHANGED <<rev, clock, storage, lock, lastSet, lab>>

\* Mutant of MainGet: the line `db.lock().unwrap().remove(&key)` that main.rs
\* carries as a comment is executed when the key has expired.
MainGetRemove(c) ==
    /\ conn[c].pc = "lookup"
    /\ lock = NoConn
    /\ LET key == conn[c].command.key
           result == main_get(storage, key, conn[c].requested)
       IN  /\ conn' = [conn EXCEPT ![c].pc = "write", ![c].result = result,
                                   ![c].wbuf = main_get_reply(result)]
           /\ storage' = IF result = Err("Expired")
                         THEN [k \in DOMAIN storage \ {key} |-> storage[k]]
                         ELSE storage
    /\ UNCHANGED <<rev, clock, lock, lastSet, lab>>

\* The Get arm of main.rs, the lookup under the lock and the formatting of the
\* reply; the guard is dropped when format! returns.
MainGet(c) ==
    /\ conn[c].pc = "lookup"
    /\ lock = NoConn
    /\ LET result == main_get(storage, conn[c].command.key, conn[c].requested) IN
       /\ conn' = [conn EXCEPT ![c].pc = "write", ![c].result = result,
                               ![c].wbuf = main_get_reply(result)]
       /\ lastSet' = NoteGet(conn[c].command.key, result, conn[c].requested)
    /\ UNCHANGED <<rev, clock, storage, lock, lab>>

\* stream.write(..).await of the reply; the arm ends (a guard it holds is
\* dropped) and the loop goes back to stream.read.
Write(c) ==
    /\ conn[c].pc = "write"
    /\ lock' = IF lock = c THEN NoConn ELSE lock
    /\ conn' = [conn EXCEPT ![c].pc = "read", ![c].command = NoCommand,
                            ![c].requested = 0, ![c].result = NoResult,
                            ![c].wbuf = <<>>]
    /\ UNCHANGED <<rev, clock, storage, lastSet, lab>>

Next ==
    \/ Tick
    \/ \E c \in Conns : Accept(c)
    \/ \E c \in Conns : Eof(c)
    \/ \E c \in Conns, bytes \in Frames : Read(c, bytes)
    \/ \E c \in Conns : ExecPing(c)
    \/ \E c \in Conns : ExecEcho(c)
    \/ \E c \in Conns : ExecSet(c)
    \/ \E c \in Conns : ServerGet(c)
    \/ \E c \in Conns : MainRequested(c)
    \/ \E c \in Conns : MainGet(c)
    \/ \E c \in Conns : Write(c)

Spec == Init /\ [][Next]_vars

\* ------------------------------------- the server with peers that close

\* The peers of the connections are told apart: a peer sends requests until
\* it closes its end of the stream, and from then on every read of the
\* connection returns 0 bytes.  `lab.closed` holds the connections whose peer
\* has closed.  The clock stands still here: no step of a task waits for
\* time to pass, and which reply a Get writes is the matter of Spec.
InitPeers ==
    /\ rev \in {"server", "main"}
    /\ clock = 0
    /\ storage = Database_new
    /\ lock = NoConn
    /\ conn = [c \in Conns |-> Closed("none")]
    /\ lastSet = Database_new
    /\ lab = [stage |-> "peers", closed |-> {}]

\* The peer of an accepted connection closes its end.
PeerClose(c) ==
    /\ conn[c].pc # "closed"
    /\ c \notin lab.closed
    /\ lab' = [lab EXCEPT !.closed = @ \cup {c}]
    /\ UNCHANGED <<rev, clock, storage, lock, conn, lastSet>>

\* listener.accept() of a peer that has not closed.
AcceptOpen(c) == c \notin lab.closed /\ Accept(c)

\* stream.read returns the bytes of a request: the peer is there to send them.
ReadOpen(c, bytes) == c \notin lab.closed /\ Read(c, bytes)

\* stream.read returns 0: the peer has closed.
ReadZero(c) == c \in lab.closed /\ Eof(c)

\* The steps the task of connection c takes by itself.
TaskStep(c) ==
    \/ ReadZero(c)
    \/ ExecPing(c)
    \/ ExecEcho(c)
    \/ MainRequested(c)
    \/ MainGet(c)
    \/ Write(c)

NextPeers ==
    \/ \E c \in Conns : AcceptOpen(c)
    \/ \E c \in Conns : PeerClose(c)
    \/ \E c \in Conns, bytes \in Frames : ReadOpen(c, bytes)
    \/ \E c \in Conns : ReadZero(c)
    \/ \E c \in Conns : ExecPing(c)
    \/ \E c \in Conns : ExecEcho(c)
    \/ \E c \in Conns : ExecSet(c)
    \/ \E c \in Conns : ServerGet(c)
    \/ \E c \in Conns : MainRequested(c)
    \/ \E c \in Conns : MainGet(c)
    \/ \E c \in Conns : Write(c)

\* The tokio runtime runs every task that can take a step, and a write of a
\* short reply returns; the tokio Mutex hands the lock out in the order it
\* was asked for, so a task that waits for it gets it.
FairPeers ==
    \A c \in Conns :
        /\ WF_vars(TaskStep(c))
        /\ SF_vars(ExecSet(c))
        /\ SF_vars(ServerGet(c))

SpecPeers == InitPeers /\ [][NextPeers]_vars /\ FairPeers

\* ------------------------------------------- the codec taken on its own

\* The longest payload of a token, the most elements of an array, the most
\* lines and the most padding zeros of a raw frame given to the codec.
MaxData == 2
MaxElems == 2
MaxLines == 3
MaxPad == 1

\* Payloads: a letter, the array sigil, and the two bytes of the separator.
\* A simple string holds neither CR nor LF; a bulk string may hold any byte.
TextChars == {"a", "*"}
DataChars == {"a", "*", CR, LF}

\* The lines of the raw frames.
LabLines ==
    { <<>>, <<"+">>, <<"+", "a">>, <<"$", "1">>, <<"$", "3">>, <<"$", "a">>, <<"a">>,
      <<"*", "1">>, <<"*", "2">> }

RECURSIVE JoinLines(_)
JoinLines(lines) ==
    IF lines = <<>> THEN <<>> ELSE Head(lines) \o CRLF \o JoinLines(Tail(lines))

Zeros(n) == [i \in 1..n |-> NUL]

\* A string token with a payload of at most n bytes is given to the codec.
LabLeaf(n) ==
    \E m \in 0..n :
        \/ \E d \in [1..m -> TextChars] : lab = [stage |-> "token", src |-> SimpleString(d)]
        \/ \E d \in [1..m -> DataChars] : lab = [stage |-> "token", src |-> BulkString(d)]

\* The string tokens with a payload of at most one byte less than MaxData,
\* of which the arrays are made.
Elements ==
    UNION { { SimpleString(d) : d \in [1..m -> TextChars] }
                \cup { BulkString(d) : d \in [1..m -> DataChars] } :
            m \in 0..(MaxData - 1) }

\* An array of at most MaxElems string tokens is given to the codec, as it
\* is, as the one element of an array, or after a string in an array.
LabArray ==
    \E m \in 0..MaxElems : \E ts \in [1..m -> Elements] :
        \/ lab = [stage |-> "token", src |-> Array(ts)]
        \/ lab = [stage |-> "token", src |-> Array(<<Array(ts)>>)]
        \/ lab = [stage |-> "token", src |-> Array(<<BulkString(<<>>), Array(ts)>>)]

\* A raw frame is given to the codec: up to MaxLines lines, each followed by
\* CRLF (the last one with or without it), then up to MaxPad zeros of the
\* read buffer.
LabFrame ==
    \E m \in 0..MaxLines : \E ls \in [1..m -> LabLines] :
    \E pad \in 0..MaxPad, cut \in {0, 2} :
        /\ cut <= Len(JoinLines(ls))
        /\ lab = [stage |-> "bytes",
                  input |-> SubSeq(JoinLines(ls), 1, Len(JoinLines(ls)) - cut)
                                \o Zeros(pad)]

InitServerIdle ==
    /\ rev = "server"
    /\ clock = 0
    /\ storage = Database_new
    /\ lock = NoConn
    /\ conn = [c \in Conns |-> Closed("none")]
    /\ lastSet = Database_new

server_vars == <<rev, clock, storage, lock, conn, lastSet>>

InitCodec ==
    /\ InitServerIdle
    /\ (LabLeaf(MaxData) \/ LabArray \/ LabFrame)

\* Token::to_string (Display) of a constructed token.
LabEncode ==
    /\ lab.stage = "token"
    /\ lab' = [stage |-> "encoded", src |-> lab.src, bytes |-> Token_fmt(lab.src)]
    /\ UNCHANGED server_vars

\* Token::try_from of the bytes just encoded.
LabDecode ==
    /\ lab.stage = "encoded"
    /\ lab' = [stage |-> "roundtrip", src |-> lab.src, bytes |-> lab.bytes,
               decoded |-> Token_try_from(lab.bytes)]
    /\ UNCHANGED server_vars

\* Token::try_from of a raw frame.
LabDecodeInput ==
    /\ lab.stage = "bytes"
    /\ lab' = [stage |-> "decoded", input |-> lab.input,
               decoded |-> Token_try_from(lab.input)]
    /\ UNCHANGED server_vars

\* Token::to_string of the token a raw frame decoded to.
LabReencode ==
    /\ lab.stage = "decoded"
    /\ lab.decoded.ok
    /\ lab' = [stage |-> "reencoded", input |-> lab.input, decoded |-> lab.decoded,
               bytes |-> Token_fmt(lab.decoded.val)]
    /\ UNCHANGED server_vars

NextCodec == LabEncode \/ LabDecode \/ LabDecodeInput \/ LabReencode

SpecCodec == InitCodec /\ [][NextCodec]_vars

\* ------------------------------------- the interpreter taken on its own

\* The most elements that follow the command name in an array.
MaxArgs == 4

NameTokens ==
    { BulkString(SET), SimpleString(<<"s", "e", "t">>), BulkString(<<"S", "e", "T">>),
      BulkString(GET), BulkString(<<"E", "C", "H", "O">>), BulkString(<<"n", "o">>),
      BulkString(<<"P", "i", "N", "g">>), SimpleString(<<"e", "C", "h", "O">>) }

ArgTokens ==
    { BulkString(kk), SimpleString(vv), BulkString(<<"1">>), BulkString(<<"1", "2">>),
      BulkString(<<"x">>), Array(<<>>) }

\* Tokens that are no array of a name and arguments.
OtherSyntax ==
    { SimpleString(<<"p", "i", "n", "g">>), BulkString(<<"P", "I", "N", "G">>),
      SimpleString(<<"p", "o", "n", "g">>), Array(<<>>),
      SimpleString(<<"e", "c", "h", "o">>), BulkString(SET),
      Array(<<Array(<<>>), BulkString(kk)>>),
      Array(<<BulkString(<<"P", "i", "n", "g">>)>>) }

InitCommand ==
    /\ InitServerIdle
    /\ \E now \in {0, 1} :
          \/ \E name \in NameTokens : \E m \in 0..MaxArgs : \E args \in [1..m -> ArgTokens] :
                lab = [stage |-> "syntax", token |-> Array(<<name>> \o args), now |-> now]
          \/ \E t \in OtherSyntax :
                lab = [stage |-> "syntax", token |-> t, now |-> now]

\* Command::try_from of a token.
LabInterpret ==
    /\ lab.stage = "syntax"
    /\ lab' = [stage |-> "command", token |-> lab.token, now |-> lab.now,
               command |-> Command_try_from(lab.token, lab.now)]
    /\ UNCHANGED server_vars

NextCommand == LabInterpret

SpecCommand == InitCommand /\ [][NextCommand]_vars

\* ------------------------------------------------------------------ claims

\* The step in which connection c looks its key up (Database::get under the
\* lock in server.rs, the inline match of main.rs).
GetDone(c) ==
    /\ conn[c].command.op = "Get"
    /\ conn[c].pc \in {"exec", "lookup"}
    /\ conn'[c].pc = "write"

\* The instant at which the Get of c was issued, once it is done.
IssuedAt(c) == conn'[c].requested

\* C1: a Get on a key whose last Set gave the value v with a ttl d returns v
\* while the time elapsed since v was created is at most d (d included), and
\* Expired once it is greater than d.
C1_TtlDecidesGet ==
    [][\A c \in Conns :
         LET key == conn[c].command.key IN
         (GetDone(c) /\ key \in DOMAIN lastSet /\ lastSet[key].value.ttl.some) =>
            LET v == lastSet[key].value
                elapsed == IssuedAt(c) - v.created
            IN  /\ elapsed <= v.ttl.v => conn'[c].result = Ok(v)
                /\ elapsed > v.ttl.v => conn'[c].result = Err("Expired")]_vars

\* C1 witness: a Get has just returned Expired for a key that was set with a
\* ttl, more than the ttl after the value was created.
C1_Witness ==
    \E c \in Conns :
        /\ conn[c].pc = "write"
        /\ conn[c].result = Err("Expired")
        /\ conn[c].command.key \in DOMAIN lastSet
        /\ lastSet[conn[c].command.key].value.ttl.some
        /\ conn[c].requested - lastSet[conn[c].command.key].value.created
             > lastSet[conn[c].command.key].value.ttl.v

\* C2: a Get on a key whose last Set gave the value v with no ttl returns v,
\* whatever the time elapsed and whatever else was executed since.
C2_NoTtlNeverExpires ==
    [][\A c \in Conns :
         LET key == conn[c].command.key IN
         (GetDone(c) /\ key \in DOMAIN lastSet /\ ~lastSet[key].value.ttl.some) =>
            /\ conn'[c].result.ok
            /\ conn'[c].result.val.data = lastSet[key].value.data]_vars

\* C2 witness: a value stored with no ttl is returned at the last instant of
\* the clock, after it was created at the first one.
C2_Witness ==
    \E c \in Conns :
        /\ conn[c].pc = "write"
        /\ conn[c].result.ok
        /\ ~conn[c].result.val.ttl.some
        /\ conn[c].result.val.created = 0
        /\ conn[c].requested = MaxTime

\* C3: a Set replaces the whole entry of its key (data, ttl and creation
\* instant are those of that one Set) and leaves the other keys alone; a Get
\* after a Set with no ttl that replaced a value with a ttl returns the new
\* value, also once the replaced value would have expired.
C3_SetReplacesEntry ==
    [][/\ \A c \in Conns :
            (conn[c].command.op = "Set" /\ conn[c].pc = "exec" /\ conn'[c].pc = "write") =>
                /\ DOMAIN storage' = DOMAIN storage \cup {conn[c].command.key}
                /\ storage'[conn[c].command.key] = conn[c].command.value
                /\ \A k \in DOMAIN storage \ {conn[c].command.key} :
                       storage'[k] = storage[k]
       /\ \A c \in Conns :
            LET key == conn[c].command.key IN
            (GetDone(c) /\ key \in DOMAIN lastSet /\ lastSet[key].replaced.some) =>
                conn'[c].result = Ok(lastSet[key].value)]_vars

\* C3 witness: a Get returned the value of a Set with no ttl after the instant
\* at which the value that Set replaced was to expire.
C3_Witness ==
    \E c \in Conns :
        /\ conn[c].pc = "write"
        /\ conn[c].result.ok
        /\ conn[c].command.key \in DOMAIN lastSet
        /\ lastSet[conn[c].command.key].replaced.some
        /\ conn[c].result.val = lastSet[conn[c].command.key].value
        /\ conn[c].requested > lastSet[conn[c].command.key].replaced.v

\* C4: a Get returns KeyNotFound exactly when no Set was ever executed on its
\* key; a key that was set is never reported as KeyNotFound, expired or not.
C4_KeyNotFoundIffNeverSet ==
    [][\A c \in Conns :
         GetDone(c) =>
            (conn'[c].result = Err("KeyNotFound")
                <=> conn[c].command.key \notin DOMAIN lastSet)]_vars

\* C4 witness: one Get has returned KeyNotFound for a key never set while
\* another has returned Expired for a key that was set.
C4_Witness ==
    \E c, d \in Conns :
        /\ conn[c].pc = "write"
        /\ conn[c].result = Err("KeyNotFound")
        /\ conn[c].command.key \notin DOMAIN lastSet
        /\ conn[d].pc = "write"
        /\ conn[d].result = Err("Expired")

\* C5: no step of a connection that is executing a Get changes the map, the
\* map changes only in the step that executes a Set, and no key ever leaves
\* the map (an expired entry stays until a Set overwrites it).
C5_GetLeavesStore ==
    [][/\ \A c \in Conns :
            (conn[c].command.op = "Get" /\ conn'[c] # conn[c]) => storage' = storage
       /\ storage' # storage =>
            \E c \in Conns : /\ conn[c].command.op = "Set"
                             /\ conn[c].pc = "exec"
                             /\ conn'[c].pc = "write"
       /\ DOMAIN storage \subseteq DOMAIN storage']_vars

\* C5 witness: a Get has returned Expired and the expired entry is in the map.
C5_Witness ==
    \E c \in Conns :
        /\ conn[c].pc = "write"
        /\ conn[c].result = Err("Expired")
        /\ conn[c].command.key \in DOMAIN storage
        /\ storage[conn[c].command.key].ttl.some

\* The reply the claim C6 gives for a command and the result of its lookup.
C6_Reply(command, result) ==
    CASE command.op = "Ping" -> <<"+", "P", "O", "N", "G">> \o <<CR, LF>>
      [] command.op = "Echo" -> <<"+">> \o command.message \o <<CR, LF>>
      [] command.op = "Set" -> <<"+", "O", "K">> \o <<CR, LF>>
      [] command.op = "Get" /\ result.ok -> <<"+">> \o result.val.data \o <<CR, LF>>
      [] command.op = "Get" /\ result = Err("Expired") -> <<"$", "-", "1">> \o <<CR, LF>>

\* C6: the reply handed to the stream is the one the outcome of the command
\* determines; for KeyNotFound it starts with '-' and ends with CRLF.
C6_ReplyByOutcome ==
    \A c \in Conns :
        conn[c].pc = "write" =>
            IF conn[c].command.op = "Get" /\ conn[c].result = Err("KeyNotFound")
            THEN /\ Len(conn[c].wbuf) >= 3
                 /\ conn[c].wbuf[1] = "-"
                 /\ SubSeq(conn[c].wbuf, Len(conn[c].wbuf) - 1, Len(conn[c].wbuf))
                      = <<CR, LF>>
            ELSE conn[c].wbuf = C6_Reply(conn[c].command, conn[c].result)

\* C7: a constructed token that is encoded and then decoded comes back as
\* itself.
C7_RoundTrip ==
    lab.stage = "roundtrip" => lab.decoded = Ok(lab.src)

\* C8: a frame that decodes re-encodes to the bytes it was, less the zeros
\* around it.
C8_ReencodeExact ==
    lab.stage = "reencoded" => lab.bytes = trim_matches(lab.input, NUL)

\* An array whose name is `set` in any case, with a string key at index 1 and
\* a string value at index 2.
IsSetArray(t) ==
    /\ t.type = "Array"
    /\ Len(t.tokens) >= 3
    /\ IsString(t.tokens[1])
    /\ to_ascii_lowercase(t.tokens[1].data) = <<"s", "e", "t">>
    /\ IsString(t.tokens[2])
    /\ IsString(t.tokens[3])

\* The Set the claims expect of a set array, with the ttl they name.
SetOf(t, ttl, now) ==
    Ok(Set(t.tokens[2].data, Value(t.tokens[3].data, ttl, now)))

IsDecimal(d) == d # <<>> /\ \A i \in 1..Len(d) : IsDigit(d[i])

\* C9: a set whose element at index 4 is a string that is no unsigned integer
\* is interpreted as a Set with no ttl.
C9_BadTtlIsNoTtl ==
    (/\ lab.stage = "command"
     /\ IsSetArray(lab.token)
     /\ Len(lab.token.tokens) >= 5
     /\ IsString(lab.token.tokens[5])
     /\ ~IsDecimal(lab.token.tokens[5].data))
        => lab.command = SetOf(lab.token, None, lab.now)

\* C10: the ttl of a set comes from index 4 alone, as milliseconds: none for
\* an array of 3 or 4 elements, n for the decimal n at index 4, and the same
\* command whatever stands at index 3.
C10_TtlAtIndex4 ==
    (lab.stage = "command" /\ IsSetArray(lab.token)) =>
        LET tokens == lab.token.tokens IN
        /\ Len(tokens) \in {3, 4} => lab.command = SetOf(lab.token, None, lab.now)
        /\ (/\ Len(tokens) >= 5
            /\ IsString(tokens[5])
            /\ IsDecimal(tokens[5].data))
              => lab.command
                   = SetOf(lab.token, Some(DecimalValue(tokens[5].data)), lab.now)
        /\ Len(tokens) >= 4 =>
              \A other \in ArgTokens :
                  Command_try_from(Array([tokens EXCEPT ![4] = other]), lab.now)
                      = lab.command

\* C10 witness: a set with a number at index 3 and another at index 4 got the
\* ttl of index 4.
C10_Witness ==
    /\ lab.stage = "command"
    /\ IsSetArray(lab.token)
    /\ Len(lab.token.tokens) = 5
    /\ lab.token.tokens[4] = BulkString(<<"1">>)
    /\ lab.token.tokens[5] = BulkString(<<"1", "2">>)
    /\ lab.command.ok
    /\ lab.command.val.value.ttl = Some(12)

\* The spellings of each command name that the interpreter is given, and the
\* command each one names.
PingNames == { <<"P", "I", "N", "G">>, <<"p", "i", "n", "g">>, <<"P", "i", "n", "g">>,
               <<"P", "i", "N", "g">> }
EchoNames == { <<"E", "C", "H", "O">>, <<"e", "c", "h", "o">>, <<"e", "C", "h", "O">> }
GetNames == { GET, <<"g", "e", "t">> }
SetNames == { SET, <<"s", "e", "t">>, <<"S", "e", "T">> }

\* Whether the element at the zero-based index i of an array is a string.
StringAt(tokens, i) == Len(tokens) > i /\ IsString(tokens[i + 1])

\* C11: the name, compared without regard to ASCII case, selects the command:
\* a bare string is accepted only as ping; an array named ping, echo, get or
\* set yields that command once the arguments it requires are there, and never
\* another one; every other name, and an array with no string in front, is
\* rejected with InvalidInput.
C11_NameSelectsCommand ==
    lab.stage = "command" =>
        IF IsString(lab.token)
        THEN lab.command = (IF lab.token.data \in PingNames THEN Ok(Ping) ELSE InvalidInput)
        ELSE LET tokens == lab.token.tokens IN
             IF ~StringAt(tokens, 0) THEN lab.command = InvalidInput
             ELSE LET name == tokens[1].data IN
                  CASE name \in PingNames -> lab.command = Ok(Ping)
                    [] name \in EchoNames ->
                          /\ lab.command.ok => lab.command.val.op = "Echo"
                          /\ StringAt(tokens, 1) => lab.command = Ok(Echo(tokens[2].data))
                    [] name \in GetNames ->
                          /\ lab.command.ok => lab.command.val.op = "Get"
                          /\ StringAt(tokens, 1) => lab.command = Ok(Get(tokens[2].data))
                    [] name \in SetNames ->
                          /\ lab.command.ok => lab.command.val.op = "Set"
                          /\ (StringAt(tokens, 1) /\ StringAt(tokens, 2) /\ Len(tokens) < 5)
                                => lab.command = SetOf(lab.token, None, lab.now)
                    [] OTHER -> lab.command = InvalidInput

\* C11 witness: an array named SeT was interpreted as a Set, and so was one
\* named in another case.
C11_Witness ==
    /\ lab.stage = "command"
    /\ ~IsString(lab.token)
    /\ StringAt(lab.token.tokens, 0)
    /\ lab.token.tokens[1].data = <<"S", "e", "T">>
    /\ lab.command.ok
    /\ lab.command.val.op = "Set"

\* C12: an echo or a get whose one argument is missing or is an array, and a
\* set whose key or value is missing or is an array, fail with InvalidInput:
\* no command comes out of them.
C12_MissingArgumentFails ==
    (lab.stage = "command" /\ ~IsString(lab.token) /\ StringAt(lab.token.tokens, 0)) =>
        LET tokens == lab.token.tokens
            name == tokens[1].data
        IN  /\ (name \in EchoNames \cup GetNames /\ ~StringAt(tokens, 1))
                  => lab.command = InvalidInput
            /\ (name \in SetNames /\ (~StringAt(tokens, 1) \/ ~StringAt(tokens, 2)))
                  => lab.command = InvalidInput

\* C12 witness: a set whose key is there and whose value is an array was
\* answered with InvalidInput.
C12_Witness ==
    /\ lab.stage = "command"
    /\ lab.command = InvalidInput
    /\ lab.token = Array(<<BulkString(SET), BulkString(kk), Array(<<>>)>>)

\* The lines of a raw frame, without the zeros of the read buffer.
LinesOf(input) == split(TrimEnd(input, NUL))

\* Whether a line is the sigil followed by the decimal digits of a number.
IsHeader(line, sigil) ==
    /\ Len(line) >= 2
    /\ line[1] = sigil
    /\ IsDecimal(Tail(line))

\* C13: an array frame decodes to an Array of exactly `count` elements, an
\* element that is an array staying a nested Array; and a frame `*<count>`
\* followed by fewer than count lines is not decoded to anything.
C13_ArrayCount ==
    /\ (/\ lab.stage = "roundtrip"
        /\ lab.src.type = "Array"
        /\ lab.decoded.ok)
          => /\ lab.decoded.val.type = "Array"
             /\ Len(lab.decoded.val.tokens) = Len(lab.src.tokens)
             /\ \A i \in 1..Len(lab.src.tokens) :
                    lab.decoded.val.tokens[i].type = lab.src.tokens[i].type
    /\ (/\ lab.stage = "decoded"
        /\ IsHeader(LinesOf(lab.input)[1], ARRAY_START)
        /\ Cardinality({ i \in 2..Len(LinesOf(lab.input)) : LinesOf(lab.input)[i] # <<>> })
              < DecimalValue(Tail(LinesOf(lab.input)[1])))
          => ~lab.decoded.ok

\* C14: a bulk string comes back with exactly the bytes its length declares:
\* a payload holding CR or LF is decoded whole from its encoding, and the
\* payload decoded from a frame `$<length>` is length bytes long.
C14_BulkPayloadWhole ==
    /\ (/\ lab.stage = "roundtrip"
        /\ lab.src.type = "BulkString"
        /\ \E i \in 1..Len(lab.src.data) : lab.src.data[i] \in {CR, LF})
          => lab.decoded = Ok(lab.src)
    /\ (/\ lab.stage = "decoded"
        /\ IsHeader(LinesOf(lab.input)[1], BULK_STRING_START)
        /\ lab.decoded.ok
        /\ lab.decoded.val.type = "BulkString")
          => Len(lab.decoded.val.data) = DecimalValue(Tail(LinesOf(lab.input)[1]))

\* The lines of a raw frame that are not empty.
ElementLines(input) == SelectSeq(LinesOf(input), LAMBDA line : line # <<>>)

\* C15: a frame whose first line starts with a byte other than '+', '$' and
\* '*' fails with UnknownType; a frame that ends after a `$<length>` line
\* fails with IncompleteMessage; and a frame whose first line is a '$' with a
\* length that is no unsigned integer fails.
C15_DecodeFailures ==
    (lab.stage = "decoded" /\ ElementLines(lab.input) # <<>>) =>
        LET lines == ElementLines(lab.input)
            first == lines[1]
        IN  /\ first[1] \notin {SIMPLE_STRING_START, BULK_STRING_START, ARRAY_START}
                  => lab.decoded = Err("UnknownType")
            /\ (Len(lines) = 1 /\ first[1] = BULK_STRING_START)
                  => lab.decoded = Err("IncompleteMessage")
            /\ (first[1] = BULK_STRING_START /\ ~IsDecimal(Tail(first)))
                  => ~lab.decoded.ok

\* Whether a buffer holds nothing but zeros (or nothing at all).
OnlyZeros(input) == \A i \in 1..Len(input) : input[i] = NUL

\* C16: a buffer of zeros only, or an empty one, decodes to the empty Array,
\* and a frame followed by the zeros of the read buffer decodes to what the
\* frame alone decodes to.
C16_ZerosAreNoFrame ==
    lab.stage = "decoded" =>
        /\ OnlyZeros(lab.input) => lab.decoded = Ok(Array(<<>>))
        /\ \A n \in 0..Len(lab.input) :
              OnlyZeros(SubSeq(lab.input, n + 1, Len(lab.input)))
                  => lab.decoded = Token_try_from(SubSeq(lab.input, 1, n))

\* C16 witness: a buffer of zeros was decoded to the empty Array.
C16_Witness ==
    /\ lab.stage = "decoded"
    /\ Len(lab.input) >= 1
    /\ OnlyZeros(lab.input)
    /\ lab.decoded = Ok(Array(<<>>))

\* The step in which the task of connection c ends on an error of decoding or
\* of interpretation.
Fails(c) ==
    /\ conn[c].pc = "read"
    /\ conn'[c].pc = "closed"
    /\ conn'[c].exit \in {"err", "panic"}

\* C17: the step that ends a connection on a decode or interpretation error
\* changes nothing else: the store and its lock are as before, every other
\* connection is where it was, and the failed connection's slot is free to be
\* accepted again.
C17_ErrorEndsOneConnection ==
    [][\A c \in Conns :
          Fails(c) => /\ storage' = storage
                      /\ lock' = lock
                      /\ \A d \in Conns \ {c} : conn'[d] = conn[d]
                      /\ conn'[c] = Closed(conn'[c].exit)]_vars

\* C17 witness: one connection has ended on an error while the store holds an
\* entry and the other connection is in the middle of a request.
C17_Witness ==
    \E c \in Conns : \E d \in Conns \ {c} :
        /\ conn[c].pc = "closed"
        /\ conn[c].exit \in {"err", "panic"}
        /\ conn[d].pc \in {"exec", "lookup", "write"}
        /\ DOMAIN storage # {}

\* C18: a Get in progress never ends its connection: its steps lead to the
\* write of a reply, also when the lookup ended in KeyNotFound or Expired, and
\* the write of that reply leads back to the read of the next request, the
\* buffer and the connection being kept.
C18_StoreErrorKeepsConnection ==
    [][\A c \in Conns :
          (conn[c].command.op = "Get" /\ conn'[c] # conn[c]) =>
              /\ conn[c].pc \in {"exec", "lookup"} =>
                    /\ conn'[c].pc \in {"lookup", "write"}
                    /\ conn'[c].pc = "write" =>
                          /\ conn'[c].result.ok
                                \/ conn'[c].result \in {Err("KeyNotFound"), Err("Expired")}
                          /\ conn'[c].wbuf # <<>>
              /\ (conn[c].pc = "write" /\ ~conn[c].result.ok) =>
                    /\ conn'[c].pc = "read"
                    /\ conn'[c].request = conn[c].request]_vars

\* C18 witness: no Set was ever executed, so the Get whose frame is still in
\* the buffer of a connection ended in KeyNotFound; the connection has got its
\* reply and is reading its next request.
C18_Witness ==
    \E c \in Conns :
        /\ conn[c].pc = "read"
        /\ DOMAIN lastSet = {}
        /\ conn[c].request # <<>>
        /\ Command_from_str(conn[c].request, 0) = Ok(Get(kk))

\* C19: no connection holds the lock of the store while it waits on its
\* socket, reading a request or writing a reply.
C19_NoLockAcrossIo ==
    \A c \in Conns : conn[c].pc \in {"read", "write"} => lock # c

\* C20: Sets and Gets on a key take effect one at a time, in the order in
\* which they got the lock: a Set step is taken with the lock free and stores
\* its whole value, and a Get returns the whole value of the last Set on its
\* key (or Expired, by that value's own ttl), KeyNotFound if there was none,
\* and never anything else.
C20_GetSeesLastSet ==
    [][\A c \in Conns :
          /\ (conn[c].command.op = "Set" /\ conn[c].pc = "exec" /\ conn'[c].pc = "write") =>
                /\ lock = NoConn
                /\ storage'[conn[c].command.key] = conn[c].command.value
                /\ \A k \in DOMAIN storage \ {conn[c].command.key} :
                      storage'[k] = storage[k]
          /\ GetDone(c) =>
                LET key == conn[c].command.key IN
                /\ lock = NoConn
                /\ IF key \in DOMAIN lastSet
                   THEN /\ storage[key] = lastSet[key].value
                        /\ conn'[c].result \in {Ok(lastSet[key].value), Err("Expired")}
                   ELSE conn'[c].result = Err("KeyNotFound")]_vars

\* C20 witness: a Get of one connection has returned the value that the Set
\* of the other connection stored over the value of an earlier Set, while
\* that other connection is still writing the reply to its Set.
C20_Witness ==
    \E c \in Conns : \E d \in Conns \ {c} :
        /\ conn[c].pc = "write"
        /\ conn[c].command.op = "Set"
        /\ conn[d].pc = "write"
        /\ conn[d].command.op = "Get"
        /\ conn[d].command.key = conn[c].command.key
        /\ conn[d].result = Ok(conn[c].command.value)
        /\ lastSet[conn[c].command.key].replaced.some

\* C21: when the first read of a connection delivers bytes that decode to the
\* empty Array, the task does not end: the connection goes on, to the next
\* read or to the reply of a command.
C21_EmptyFrameIsNoOp ==
    [][\A c \in Conns : \A bytes \in Frames :
          (/\ Read(c, bytes)
           /\ conn[c].request = <<>>
           /\ Token_try_from(bytes) = Ok(Array(<<>>)))
              => conn'[c].pc # "closed"]_vars

C23_ReadAloneDecides ==
    [][\A c \in Conns : \A bytes \in Frames :
          Read(c, bytes) =>
              LET alone == Command_from_str(bytes, clock) IN
              IF alone.ok
              THEN conn'[c].pc = "exec" /\ conn'[c].command = alone.val
              ELSE conn'[c].pc = "closed"]_vars

\* C24: once a Get on a key has returned Expired, every Get on that key
\* issued at that instant or later returns Expired as well, until a Set on
\* the key is executed; and no step but that Set changes the stored value,
\* its ttl or its creation instant, while the clock never goes back.
C24_ExpiryIsPermanent ==
    [][/\ \A c \in Conns :
            LET key == conn[c].command.key IN
            (/\ GetDone(c)
             /\ key \in DOMAIN lastSet
             /\ lastSet[key].expired.some
             /\ IssuedAt(c) >= lastSet[key].expired.v)
                => conn'[c].result = Err("Expired")
       /\ clock' >= clock
       /\ \A k \in DOMAIN storage :
            \/ storage'[k] = storage[k]
            \/ \E c \in Conns :
                  /\ conn[c].command = Set(k, storage'[k])
                  /\ conn[c].pc = "exec"
                  /\ conn'[c].pc = "write"]_vars

\* C24 witness: two Gets on the same key have returned Expired, one after the
\* other, with no Set in between.
C24_Witness ==
    \E c \in Conns : \E d \in Conns \ {c} :
        /\ conn[c].pc = "write"
        /\ conn[d].pc = "write"
        /\ conn[c].command = Get(kk)
        /\ conn[d].command = Get(kk)
        /\ conn[c].result = Err("Expired")
        /\ conn[d].result = Err("Expired")
        /\ lastSet[kk].expired.some

====
